---- MODULE Spec2Model ----
(***************************************************************************)
(* LinguaReader: the spaced-repetition review scheduler.                   *)
(*                                                                         *)
(*   server/storage.ts   MemStorage, the in-process vocabulary store       *)
(*   server/routes.ts    the REST boundary over it                         *)
(*   lib/srsSystem.ts    the client-side pure scheduling functions         *)
(*   FlashcardReview     the component that runs a review session          *)
(*                                                                         *)
(* Values.  A field of a vocabulary item holds a JavaScript value.  Every  *)
(* value is modelled as a pair <<tag, payload>>:                           *)
(*   <<"null", 0>>   null / undefined                                      *)
(*   <<"num",  n>>   the number n                                          *)
(*   <<"str",  k>>   a string; k = 0 is the empty string, k > 0 some       *)
(*                   non-empty, non-numeric text                           *)
(*   <<"date", t>>   a Date object whose local wall-clock instant is t     *)
(*   <<"iso",  t>>   the ISO string JSON.stringify produces for Date t     *)
(*                                                                         *)
(* Time.  Instants are counted in ticks of local wall-clock time, with     *)
(* TicksPerDay ticks to the calendar day.  getDate/setDate are modelled on *)
(* a calendar whose month never ends, so that setDate(getDate() + n) moves *)
(* n calendar days ahead and keeps the time of day, as Date.setDate does   *)
(* when the day overflows the month.                                       *)
(*                                                                         *)
(* Six specifications share the variables:                                 *)
(*   Spec        the REST boundary, one request handled per step           *)
(*   SpecSrs     calls of the pure functions of srsSystem on bounded       *)
(*               inputs                                                    *)
(*   SpecConc    request handlers interleaved at their awaits              *)
(*   SpecStore   direct calls of the methods of MemStorage                 *)
(*   SpecLive    reviews followed through time, the clock ticking fairly   *)
(*   SpecSession a review session of the FlashcardReview component         *)
(***************************************************************************)
EXTENDS Integers, Sequences, FiniteSets, TLC

\* ticks to the day, and the last instant the clock reaches
TicksPerDay == 2
MaxClock == 2
\* the last id createVocabularyItem assigns
MaxId == 2
\* requests handled in a behaviour of Spec
MaxRequests == 3
\* the longest collection and the highest score passed to srsSystem
MaxLen == 3
MaxScore == 7
\* requests taken up in a behaviour of SpecConc
MaxInFlight == 2
\* the largest collection passed to calculateRetentionScore
MaxEntries == 40
\* the days the clock runs when reviews are followed until they fall due
MaxDays == 34
\* the review mutations of a session that wait for their response
MaxPending == 1

----------------------------------------------------------------------------
(* JavaScript values *)

Null == <<"null", 0>>
Num(n) == <<"num", n>>
Str(k) == <<"str", k>>
DateV(t) == <<"date", t>>
Iso(t) == <<"iso", t>>

Tag(v) == v[1]
Payload(v) == v[2]

\* ToBoolean: null, 0 and "" are falsy; objects (Date) and other strings are truthy
Truthy(v) ==
  CASE Tag(v) = "null" -> FALSE
    [] Tag(v) = "num" -> Payload(v) # 0
    [] Tag(v) = "str" -> Payload(v) # 0
    [] OTHER -> TRUE

\* typeof v === 'number'
IsNumber(v) == Tag(v) = "num"

\* JSON.stringify of a value: a Date becomes its ISO string
ToJSON(v) == IF Tag(v) = "date" THEN Iso(Payload(v)) ELSE v

\* new Date(v).getTime(): <<TRUE, t>> for a valid date, <<FALSE, 0>> for NaN
DateTime(v) ==
  CASE Tag(v) = "date" -> <<TRUE, Payload(v)>>
    [] Tag(v) = "iso" -> <<TRUE, Payload(v)>>
    [] Tag(v) = "num" -> <<TRUE, Payload(v)>>
    [] Tag(v) = "null" -> <<TRUE, 0>>
    [] OTHER -> <<FALSE, 0>>

\* ToNumber(v) as the relational operators apply it: a Date gives its time,
\* a non-numeric string (an ISO string included) gives NaN
ToNumber(v) ==
  CASE Tag(v) = "date" -> <<TRUE, Payload(v)>>
    [] Tag(v) = "num" -> <<TRUE, Payload(v)>>
    [] Tag(v) = "null" -> <<TRUE, 0>>
    [] Tag(v) = "str" /\ Payload(v) = 0 -> <<TRUE, 0>>
    [] OTHER -> <<FALSE, 0>>

\* a <= b on two ToNumber results: false as soon as one side is NaN
NumLeq(a, b) == a[1] /\ b[1] /\ a[2] <= b[2]

----------------------------------------------------------------------------
(* Calendar arithmetic of Date *)

getDate(t) == t \div TicksPerDay
TimeOfDay(t) == t % TicksPerDay
\* d.setDate(day): the calendar day becomes `day`, the time of day is kept
setDate(t, day) == day * TicksPerDay + TimeOfDay(t)

----------------------------------------------------------------------------
(* lib/srsSystem.ts *)

intervals == [s \in 1..5 |-> CASE s = 1 -> 1 [] s = 2 -> 3 [] s = 3 -> 7
                               [] s = 4 -> 14 [] OTHER -> 30]

\* the same falling back to the longest interval
interval_fallbackLongest(familiarityScore) ==
  IF familiarityScore \in DOMAIN intervals /\ intervals[familiarityScore] # 0
  THEN intervals[familiarityScore]
  ELSE intervals[5]

\* intervals[familiarityScore] || intervals[1]
interval(familiarityScore) ==
  IF familiarityScore \in DOMAIN intervals /\ intervals[familiarityScore] # 0
  THEN intervals[familiarityScore]
  ELSE intervals[1]

\* calculateNextReviewDate(familiarityScore, lastReviewed): the instant of
\* the returned Date
calculateNextReviewDate(familiarityScore, lastReviewed) ==
  setDate(lastReviewed, getDate(lastReviewed) + interval(familiarityScore))

\* the same with reviewDate < now
IsDueClient_strict(item, now) ==
  IF Truthy(item.nextReviewDate)
  THEN NumLeq(DateTime(item.nextReviewDate), <<TRUE, now - 1>>)
  ELSE TRUE

\* the filter callback of getItemsDueForReview
IsDueClient(item, now) ==
  IF Truthy(item.nextReviewDate)
  THEN NumLeq(DateTime(item.nextReviewDate), <<TRUE, now>>)
  ELSE TRUE

getItemsDueForReview(vocabularyItems, now) ==
  SelectSeq(vocabularyItems, LAMBDA item : IsDueClient(item, now))

\* the inline filter of the Vocabulary page (its dueItems, before sorting)
IsDueVocabularyPage(item, now) ==
  IF ~Truthy(item.nextReviewDate) THEN TRUE
  ELSE NumLeq(DateTime(item.nextReviewDate), <<TRUE, now>>)

VocabularyPageDue(vocabularyItems, now) ==
  SelectSeq(vocabularyItems, LAMBDA item : IsDueVocabularyPage(item, now))

\* the same with the two early returns exchanged
compareDue_unsetLast(a, b) ==
  IF ~Truthy(a.nextReviewDate) THEN 1
  ELSE IF ~Truthy(b.nextReviewDate) THEN -1
  ELSE LET ta == DateTime(a.nextReviewDate)
           tb == DateTime(b.nextReviewDate)
       IN IF ta[1] /\ tb[1] THEN ta[2] - tb[2] ELSE 0

\* the comparefn of sortItemsByDueDate; a NaN difference counts as 0, as
\* Array.prototype.sort takes it
compareDue(a, b) ==
  IF ~Truthy(a.nextReviewDate) THEN -1
  ELSE IF ~Truthy(b.nextReviewDate) THEN 1
  ELSE LET ta == DateTime(a.nextReviewDate)
           tb == DateTime(b.nextReviewDate)
       IN IF ta[1] /\ tb[1] THEN ta[2] - tb[2] ELSE 0

(* Array.prototype.sort.  compareDue(a, b) and compareDue(b, a) are both   *)
(* negative when neither item has a nextReviewDate, so compareDue is not a *)
(* consistent comparator and the order sort leaves is implementation-      *)
(* defined.  Two implementations are modelled, for arrays shorter than     *)
(* their merge threshold: V8 (TimSort: the leading run is found, reversed  *)
(* when it descends, and extended by binary insertion) and SpiderMonkey    *)
(* (insertion sort).                                                       *)

Engines == {"V8", "SpiderMonkey"}

Reverse(arr) == [i \in 1..Len(arr) |-> arr[Len(arr) + 1 - i]]

\* V8 CountAndMakeRun: the length of the run that starts the array, n of
\* its elements counted so far
RECURSIVE CountRun(_, _, _)
CountRun(arr, isDescending, n) ==
  IF n >= Len(arr) THEN n
  ELSE LET order == compareDue(arr[n + 1], arr[n])
       IN IF (isDescending /\ order >= 0) \/ (~isDescending /\ order < 0)
          THEN n
          ELSE CountRun(arr, isDescending, n + 1)

CountAndMakeRun(arr) ==
  LET isDescending == compareDue(arr[2], arr[1]) < 0
      runLength == CountRun(arr, isDescending, 2)
  IN [runLength |-> runLength,
      workArray |-> IF isDescending
                    THEN Reverse(SubSeq(arr, 1, runLength))
                           \o SubSeq(arr, runLength + 1, Len(arr))
                    ELSE arr]

\* V8 BinaryInsertionSort, the search: the number of elements of
\* arr[1..start] the pivot goes after (left and right count elements)
RECURSIVE BinarySearch(_, _, _, _)
BinarySearch(arr, pivot, left, right) ==
  IF left >= right THEN left
  ELSE LET mid == left + ((right - left) \div 2)
       IN IF compareDue(pivot, arr[mid + 1]) < 0
          THEN BinarySearch(arr, pivot, left, mid)
          ELSE BinarySearch(arr, pivot, mid + 1, right)

\* V8 BinaryInsertionSort: arr[1..start] is sorted, the rest is inserted
RECURSIVE BinaryInsertionSort(_, _)
BinaryInsertionSort(arr, start) ==
  IF start >= Len(arr) THEN arr
  ELSE LET pivot == arr[start + 1]
           left == BinarySearch(arr, pivot, 0, start)
       IN BinaryInsertionSort(
            SubSeq(arr, 1, left) \o <<pivot>> \o SubSeq(arr, left + 1, start)
              \o SubSeq(arr, start + 2, Len(arr)),
            start + 1)

ArrayTimSort(arr) ==
  IF Len(arr) < 2 THEN arr
  ELSE LET run == CountAndMakeRun(arr)
       IN BinaryInsertionSort(run.workArray, run.runLength)

\* SpiderMonkey InsertionSort, the inner loop: the number of elements of
\* arr[1..j] the item stays after
RECURSIVE InsertionPoint(_, _, _)
InsertionPoint(arr, item, j) ==
  IF j = 0 THEN 0
  ELSE IF compareDue(arr[j], item) <= 0 THEN j
  ELSE InsertionPoint(arr, item, j - 1)

\* SpiderMonkey InsertionSort: arr[1..i-1] is sorted, arr[i] is next
RECURSIVE InsertionSort(_, _)
InsertionSort(arr, i) ==
  IF i > Len(arr) THEN arr
  ELSE LET j == InsertionPoint(arr, arr[i], i - 1)
       IN InsertionSort(
            SubSeq(arr, 1, j) \o <<arr[i]>> \o SubSeq(arr, j + 1, i - 1)
              \o SubSeq(arr, i + 1, Len(arr)),
            i + 1)

ArraySort(arr, engine) ==
  IF engine = "V8" THEN ArrayTimSort(arr) ELSE InsertionSort(arr, 2)

\* the same sorting the argument in place
sortItemsByDueDate_inPlace(vocabularyItems, engine) ==
  [input |-> ArraySort(vocabularyItems, engine),
   result |-> ArraySort(vocabularyItems, engine)]

\* sortItemsByDueDate(vocabularyItems): the argument after the call and the
\* array returned; the copy [...vocabularyItems] is what is sorted
sortItemsByDueDate(vocabularyItems, engine) ==
  [input |-> vocabularyItems,
   result |-> ArraySort(vocabularyItems, engine)]

(* Numbers.  knownItems / totalItems and its product with 100 are IEEE    *)
(* 754 doubles: each operation rounds its exact result to 53 significant   *)
(* bits, ties to even.  A positive double is the pair of its significand   *)
(* and the exponent lsb of its last bit: its value is the significand      *)
(* times 2^lsb.  The significand, an integer of 53 bits, is written as the *)
(* sequence of its digits in base 2^13, the most significant first; zero   *)
(* has the empty significand.                                              *)

Precision == 53
DigitBits == 13
Base == 2 ^ DigitBits

NaN == <<"nan", 0>>
Zero == [nan |-> FALSE, digits |-> <<>>, lsb |-> 0]
NotANumber == [nan |-> TRUE, digits |-> <<>>, lsb |-> 0]

\* the number of bits of a natural number below Base * Base
RECURSIVE BitLength(_)
BitLength(n) == IF n = 0 THEN 0 ELSE 1 + BitLength(n \div 2)

RECURSIVE StripZeros(_)
StripZeros(digits) ==
  IF digits # <<>> /\ digits[1] = 0 THEN StripZeros(Tail(digits)) ELSE digits

\* the number of bits of the integer the digits write
BigBitLength(digits) ==
  LET d == StripZeros(digits)
  IN IF d = <<>> THEN 0 ELSE DigitBits * (Len(d) - 1) + BitLength(d[1])

\* the integer plus one
RECURSIVE BigIncrement(_)
BigIncrement(digits) ==
  IF digits = <<>> THEN <<1>>
  ELSE IF digits[Len(digits)] < Base - 1
  THEN [digits EXCEPT ![Len(digits)] = @ + 1]
  ELSE BigIncrement(SubSeq(digits, 1, Len(digits) - 1)) \o <<0>>

\* the integer times a small integer c, carry added
RECURSIVE BigTimes(_, _, _)
BigTimes(digits, c, carry) ==
  IF digits = <<>>
  THEN IF carry = 0 THEN <<>> ELSE <<carry>>
  ELSE LET d == digits[Len(digits)] * c + carry
       IN BigTimes(SubSeq(digits, 1, Len(digits) - 1), c, d \div Base)
            \o <<d % Base>>

\* the integer divided by 2^bits for bits < DigitBits, carry coming from
\* the digits above
RECURSIVE ShiftDigits(_, _, _)
ShiftDigits(digits, bits, carry) ==
  IF digits = <<>> THEN <<>>
  ELSE LET cur == carry * Base + digits[1]
       IN <<cur \div (2 ^ bits)>>
            \o ShiftDigits(Tail(digits), bits, cur % (2 ^ bits))

\* the integer divided by 2^bits, rounded down
BigShiftRight(digits, bits) ==
  LET whole == bits \div DigitBits
  IN IF whole >= Len(digits) THEN <<>>
     ELSE ShiftDigits(SubSeq(digits, 1, Len(digits) - whole), bits % DigitBits, 0)

\* bit i of the integer, bit 0 being the last
BigBit(digits, i) ==
  LET whole == i \div DigitBits
  IN IF whole >= Len(digits) THEN 0
     ELSE (digits[Len(digits) - whole] \div (2 ^ (i % DigitBits))) % 2

\* the last `bits` bits of the integer are all 0
BigLowZero(digits, bits) ==
  LET whole == bits \div DigitBits
  IN /\ \A j \in 1..Len(digits) : j > Len(digits) - whole => digits[j] = 0
     /\ whole < Len(digits) =>
          digits[Len(digits) - whole] % (2 ^ (bits % DigitBits)) = 0

\* the integer of a few digits
RECURSIVE BigToInt(_)
BigToInt(digits) ==
  IF digits = <<>> THEN 0
  ELSE Base * BigToInt(SubSeq(digits, 1, Len(digits) - 1)) + digits[Len(digits)]

\* round to nearest, ties to even: the exact value is digits * 2^lsb plus a
\* rest below one unit of the last place, of which half tells whether it is
\* at least half a unit and sticky whether it is anything beyond that; the
\* digits hold at most Precision bits
RoundToPrecision(digits, lsb, half, sticky) ==
  LET up == half /\ (sticky \/ BigBit(digits, 0) = 1)
      rounded == IF up THEN BigIncrement(digits) ELSE digits
  IN IF BigBitLength(rounded) > Precision
     THEN [nan |-> FALSE, digits |-> StripZeros(BigShiftRight(rounded, 1)),
           lsb |-> lsb + 1]
     ELSE [nan |-> FALSE, digits |-> StripZeros(rounded), lsb |-> lsb]

\* the next count digits of the expansion of rem / n in base 2^13, and the
\* rest
RECURSIVE Expansion(_, _, _)
Expansion(rem, n, count) ==
  IF count = 0 THEN [digits |-> <<>>, rem |-> rem]
  ELSE LET rest == Expansion((rem * Base) % n, n, count - 1)
       IN [digits |-> <<(rem * Base) \div n>> \o rest.digits, rem |-> rest.rem]

\* the first s with k * 2^s >= n
RECURSIVE LeadingShift(_, _, _)
LeadingShift(k, n, s) ==
  IF k * (2 ^ s) >= n THEN s ELSE LeadingShift(k, n, s + 1)

\* the double k / n, for integers 0 <= k <= n
Divide(k, n) ==
  IF n = 0 THEN NotANumber
  ELSE IF k = 0 THEN Zero
  ELSE LET s == LeadingShift(k, n, 0)
           x == Expansion(k * (2 ^ s) - n, n, (Precision - 1) \div DigitBits)
       IN RoundToPrecision(<<1>> \o x.digits, 0 - s - (Precision - 1),
                           2 * x.rem >= n, 2 * x.rem # n /\ x.rem # 0)

\* the double x * c, for a small positive integer c
Multiply(x, c) ==
  IF x.nan THEN NotANumber
  ELSE IF x.digits = <<>> THEN Zero
  ELSE LET product == BigTimes(x.digits, c, 0)
           extra == BigBitLength(product) - Precision
       IN IF extra <= 0
          THEN [nan |-> FALSE, digits |-> StripZeros(product), lsb |-> x.lsb]
          ELSE RoundToPrecision(BigShiftRight(product, extra), x.lsb + extra,
                                BigBit(product, extra - 1) = 1,
                                ~BigLowZero(product, extra - 1))

\* twice the double x, rounded down, for 1/2 <= 2x < Base and x not an
\* integer multiple of 2
TwiceFloor(x) == BigToInt(StripZeros(BigShiftRight(x.digits, 0 - x.lsb - 1)))

\* the same rounding down
MathRound_floor(x) ==
  IF x.nan THEN NaN
  ELSE IF x.digits = <<>> THEN Num(0)
  ELSE Num(TwiceFloor(x) \div 2)

\* Math.round(x) for a double 0 <= x < Base / 2: the nearest integer, a
\* fraction of one half or more going up
MathRound(x) ==
  IF x.nan THEN NaN
  ELSE IF x.digits = <<>> THEN Num(0)
  ELSE Num((TwiceFloor(x) + 1) \div 2)

\* a >= b on two ToNumber results: false as soon as one side is NaN
NumGeq(a, b) == a[1] /\ b[1] /\ a[2] >= b[2]

\* the same counting the items below 3
IsKnown_below(item) == ~NumGeq(ToNumber(item.familiarityScore), <<TRUE, 3>>)

\* the filter callback of calculateRetentionScore
IsKnown(item) == NumGeq(ToNumber(item.familiarityScore), <<TRUE, 3>>)

\* the same without the test of the length
calculateRetentionScore_noGuard(vocabularyItems) ==
  LET knownItems == Len(SelectSeq(vocabularyItems, LAMBDA item : IsKnown(item)))
      totalItems == Len(vocabularyItems)
  IN MathRound(Multiply(Divide(knownItems, totalItems), 100))

calculateRetentionScore(vocabularyItems) ==
  IF Len(vocabularyItems) = 0 THEN Num(0)
  ELSE LET knownItems == Len(SelectSeq(vocabularyItems, LAMBDA item : IsKnown(item)))
           totalItems == Len(vocabularyItems)
       IN MathRound(Multiply(Divide(knownItems, totalItems), 100))

----------------------------------------------------------------------------
(* shared/schema.ts *)

ItemFields == {"id", "word", "context", "translation", "notes",
               "familiarityScore", "language", "bookId", "lastReviewed",
               "nextReviewDate", "dateAdded"}

\* insertVocabularyItemSchema: the columns left after omit()
InsertFields == ItemFields \ {"id", "dateAdded", "lastReviewed", "nextReviewDate"}

\* insertVocabularyItemSchema.parse(body) succeeds: the notNull text columns
\* are strings, the nullable text columns strings or null, the integer
\* columns integers or null; a key that is absent is undefined
Field(obj, f) == IF f \in DOMAIN obj THEN obj[f] ELSE Null

insertVocabularyItemSchemaOk(body) ==
  /\ \A f \in {"word", "language"} : Tag(Field(body, f)) = "str"
  /\ \A f \in {"context", "translation", "notes"} :
       Tag(Field(body, f)) \in {"str", "null"}
  /\ \A f \in {"familiarityScore", "bookId"} :
       Tag(Field(body, f)) \in {"num", "null"}

\* the parsed object: unknown keys are stripped
insertVocabularyItemSchemaParse(body) ==
  [f \in DOMAIN body \cap InsertFields |-> body[f]]

----------------------------------------------------------------------------
(* JavaScript Map: the entries in insertion order *)

MapKeys(map) == {map[i].key : i \in DOMAIN map}
MapHas(map, key) == key \in MapKeys(map)
MapIndex(map, key) == CHOOSE i \in DOMAIN map : map[i].key = key
MapGet(map, key) == map[MapIndex(map, key)].value

\* the same with an existing key deleted first, so that it goes last too
MapSet_moveToEnd(map, key, value) ==
  Append(SelectSeq(map, LAMBDA e : e.key # key), [key |-> key, value |-> value])

\* set: an existing key keeps its position, a new key goes last
MapSet(map, key, value) ==
  IF MapHas(map, key)
  THEN [map EXCEPT ![MapIndex(map, key)] = [key |-> key, value |-> value]]
  ELSE Append(map, [key |-> key, value |-> value])

MapDelete(map, key) ==
  IF MapHas(map, key)
  THEN LET i == MapIndex(map, key)
       IN SubSeq(map, 1, i - 1) \o SubSeq(map, i + 1, Len(map))
  ELSE map

\* Array.from(map.values())
MapValues(map) == [i \in DOMAIN map |-> map[i].value]

\* { ...a, ...b }
Spread(a, b) ==
  [f \in DOMAIN a \cup DOMAIN b |-> IF f \in DOMAIN b THEN b[f] ELSE a[f]]

----------------------------------------------------------------------------
(* server/storage.ts: MemStorage.  Each operation is a function of the map, *)
(* the id counter and the clock readings it takes; none of them awaits, so  *)
(* each runs to completion in one turn of the event loop.                   *)

\* createVocabularyItem: the new item
NewVocabularyItem(id, item, now) ==
  [id |-> Num(id),
   word |-> Field(item, "word"),
   language |-> Field(item, "language"),
   translation |-> Field(item, "translation"),
   context |-> Field(item, "context"),
   notes |-> Field(item, "notes"),
   bookId |-> Field(item, "bookId"),
   familiarityScore |-> Field(item, "familiarityScore"),
   dateAdded |-> DateV(now),
   lastReviewed |-> DateV(now),
   nextReviewDate |-> DateV(now)]

\* updateVocabularyItem: the stored item, for an id that is present
UpdatedVocabularyItem(item, itemUpdate) == Spread(item, itemUpdate)

\* the same one step lower: no day for the lowest score
Pow2Days_fromZero(familiarityScore) ==
  IF familiarityScore >= 1 THEN 2 ^ (familiarityScore - 1) - 1 ELSE 0

\* Math.pow(2, familiarityScore) as setDate uses it: the day argument is
\* truncated to an integer, so a fractional power adds no day
Pow2Days(familiarityScore) ==
  IF familiarityScore >= 0 THEN 2 ^ familiarityScore ELSE 0

\* the same without the spread of the stored item
ReviewedVocabularyItem_noSpread(item, familiarityScore, now, now2) ==
  [f \in DOMAIN item |->
     CASE f = "familiarityScore" -> familiarityScore
       [] f = "lastReviewed" -> DateV(now)
       [] f = "nextReviewDate" ->
            DateV(setDate(now2, getDate(now) + 2 ^ Payload(familiarityScore)))
       [] f = "id" -> item.id
       [] OTHER -> Null]

\* the same without lastReviewed in the object literal
ReviewedVocabularyItem_keepsLastReviewed(item, familiarityScore, now, now2) ==
  Spread(item,
    [familiarityScore |-> familiarityScore,
     nextReviewDate |->
       DateV(setDate(now2, getDate(now) + 2 ^ Payload(familiarityScore)))])

\* the same leaving the next review unscheduled
ReviewedVocabularyItem_unscheduled(item, familiarityScore, now, now2) ==
  Spread(item,
    [familiarityScore |-> familiarityScore,
     lastReviewed |-> DateV(now),
     nextReviewDate |-> Null])

\* the same with the interval doubled for an item that was already known
ReviewedVocabularyItem_easeFromHistory(item, familiarityScore, now, now2) ==
  LET ease == IF Tag(item.familiarityScore) = "num" /\ Payload(item.familiarityScore) >= 3
              THEN 2 ELSE 1
  IN Spread(item,
       [familiarityScore |-> familiarityScore,
        lastReviewed |-> DateV(now),
        nextReviewDate |->
          DateV(setDate(now2, getDate(now) + ease * Pow2Days(Payload(familiarityScore))))])

\* updateVocabularyItemReviewStatus: the stored item, for an id that is
\* present.  now is the reading of `const now = new Date()`, now2 the
\* reading of `const nextReviewDate = new Date()`.
ReviewedVocabularyItem(item, familiarityScore, now, now2) ==
  Spread(item,
    [familiarityScore |-> familiarityScore,
     lastReviewed |-> DateV(now),
     nextReviewDate |->
       DateV(setDate(now2, getDate(now) + Pow2Days(Payload(familiarityScore))))])

\* the filter callback of getVocabularyItemsDueForReview:
\* item.nextReviewDate && item.nextReviewDate <= now
IsDueServer(item, now) ==
  /\ Truthy(item.nextReviewDate)
  /\ NumLeq(ToNumber(item.nextReviewDate), <<TRUE, now>>)

getVocabularyItemsDueForReview(map, now) ==
  SelectSeq(MapValues(map), LAMBDA item : IsDueServer(item, now))

getVocabularyItems(map) == MapValues(map)

\* an optional result: <<>> for undefined, <<x>> for x
Undefined == <<>>
Some(x) == <<x>>

\* the same taking the id from the number of stored items
createVocabularyItem_reusesId(map, vocabularyId, item, now) ==
  LET id == Len(map) + 1
      newItem == NewVocabularyItem(id, item, now)
  IN [map |-> MapSet(map, id, newItem),
      vocabularyId |-> id + 1,
      result |-> Some(newItem)]

\* the same leaving the review schedule to the first review
createVocabularyItem_noSchedule(map, vocabularyId, item, now) ==
  LET id == vocabularyId
      newItem == Spread(NewVocabularyItem(id, item, now), [nextReviewDate |-> Null])
  IN [map |-> MapSet(map, id, newItem),
      vocabularyId |-> id + 1,
      result |-> Some(newItem)]

\* async createVocabularyItem(item)
createVocabularyItem(map, vocabularyId, item, now) ==
  LET newItem == NewVocabularyItem(vocabularyId, item, now)
  IN [map |-> MapSet(map, vocabularyId, newItem),
      vocabularyId |-> vocabularyId + 1,
      result |-> Some(newItem)]

\* async updateVocabularyItem(id, itemUpdate)
updateVocabularyItem(map, id, itemUpdate) ==
  IF ~MapHas(map, id) THEN [map |-> map, result |-> Undefined]
  ELSE LET updatedItem == UpdatedVocabularyItem(MapGet(map, id), itemUpdate)
       IN [map |-> MapSet(map, id, updatedItem), result |-> Some(updatedItem)]

\* async deleteVocabularyItem(id)
deleteVocabularyItem(map, id) ==
  [map |-> MapDelete(map, id), result |-> MapHas(map, id)]

\* the same without `if (!item) return undefined`
updateVocabularyItemReviewStatus_noGuard(map, id, familiarityScore, now, now2) ==
  LET item == IF MapHas(map, id) THEN MapGet(map, id)
              ELSE [f \in ItemFields |-> Null]
      updatedItem == ReviewedVocabularyItem(item, familiarityScore, now, now2)
  IN [map |-> MapSet(map, id, updatedItem), result |-> Some(updatedItem)]

\* async updateVocabularyItemReviewStatus(id, familiarityScore)
updateVocabularyItemReviewStatus(map, id, familiarityScore, now, now2) ==
  IF ~MapHas(map, id) THEN [map |-> map, result |-> Undefined]
  ELSE LET updatedItem ==
             ReviewedVocabularyItem(MapGet(map, id), familiarityScore, now, now2)
       IN [map |-> MapSet(map, id, updatedItem), result |-> Some(updatedItem)]

----------------------------------------------------------------------------
(* server/routes.ts *)

\* res.json(item): every Date of the item is serialised
ItemToJSON(item) == [f \in DOMAIN item |-> ToJSON(item[f])]
ItemsToJSON(items) == [i \in DOMAIN items |-> ItemToJSON(items[i])]

\* the same without the upper bound
ReviewScoreRejected_noUpperBound(familiarityScore) ==
  \/ ~IsNumber(familiarityScore)
  \/ Payload(familiarityScore) < 1

\* PUT /api/review/:id: the test that answers 400
ReviewScoreRejected(familiarityScore) ==
  \/ ~IsNumber(familiarityScore)
  \/ Payload(familiarityScore) < 1
  \/ Payload(familiarityScore) > 5

----------------------------------------------------------------------------
(* The request bodies the model submits *)

EmptyBody == [f \in {} |-> Null]

PostBase == [word |-> Str(1), language |-> Str(1)]

PostBodies ==
  {PostBase, [language |-> Str(1)]}
  \cup {Spread(PostBase, [familiarityScore |-> Num(9)])}
  \cup {Spread(PostBase, [familiarityScore |-> Num(3), nextReviewDate |-> Iso(0)])}

PutBodies ==
  {[familiarityScore |-> Num(0)]}
  \cup {[nextReviewDate |-> v] : v \in {Null, Iso(0)}}
  \cup {[id |-> Num(9), dateAdded |-> Null]}
  \cup {[word |-> Str(2), translation |-> Str(0), context |-> Str(0),
         notes |-> Str(0), familiarityScore |-> Num(1)]}

ReviewBodies ==
  {EmptyBody}
  \cup {[familiarityScore |-> Str(1)]}
  \cup {[familiarityScore |-> Num(n)] : n \in 0..6}

Ids == 1..MaxId

----------------------------------------------------------------------------
(* State *)

\* MemStorage.vocabularyItems
VARIABLE vocabularyItems
\* MemStorage.vocabularyId
VARIABLE vocabularyId
\* the system clock that new Date() reads
VARIABLE clock
\* the last request handled and its response
VARIABLE res
\* the number of requests handled so far
VARIABLE requests
\* the arguments of a call of an srsSystem function
VARIABLE srsIn
\* the function of srsSystem called last and what it returned
VARIABLE srsOut

\* the requests the client has sent, in the order of sending, each with the
\* position of its handler and the response
VARIABLE reqs

\* FlashcardReview: the data of the query ['/api/review/due'], [] until it
\* has loaded
VARIABLE flashcards
\* FlashcardReview: isLoading of the query
VARIABLE isLoading
\* FlashcardReview: useState(0)
VARIABLE currentCardIndex
\* FlashcardReview: useState(false)
VARIABLE isFlipped
\* FlashcardReview: useState(false)
VARIABLE reviewComplete
\* what FlashcardReview rendered last
VARIABLE view
\* the fetch of the due query that is under way, if any
VARIABLE dueFetch
\* the review mutations that are under way
VARIABLE mutations
\* what the learner did in the session
VARIABLE session

vars == <<vocabularyItems, vocabularyId, clock, res, requests, srsIn, srsOut, reqs,
          flashcards, isLoading, currentCardIndex, isFlipped, reviewComplete, view,
          dueFetch, mutations, session>>

clientVars == <<flashcards, isLoading, currentCardIndex, isFlipped, reviewComplete, view,
                dueFetch, mutations, session>>

\* no fetch is under way
NoFetch == [phase |-> "none", status |-> 0, data |-> <<>>]

\* no session has started
NoSession == [started |-> FALSE, start |-> {}, rated |-> {}, moved |-> FALSE]

\* FlashcardReview is not mounted
ClientIdle ==
  /\ flashcards = <<>>
  /\ isLoading = FALSE
  /\ currentCardIndex = 0
  /\ isFlipped = FALSE
  /\ reviewComplete = FALSE
  /\ view = "unmounted"
  /\ dueFetch = NoFetch
  /\ mutations = <<>>
  /\ session = NoSession

\* the state of the server
serverVars == <<vocabularyItems, vocabularyId, clock, res, requests>>
\* the state of a call of srsSystem
srsVars == <<srsIn, srsOut>>

\* no call of srsSystem yet
SrsIdle == [fn |-> "none", date |-> 0, items |-> <<>>]

\* a response: the route, the :id and body of the request, the status, the
\* JSON body (a list of items), the instant the handler read first, and
\* the storage method the handler invoked
Response(route, id, body, status, out, now, call) ==
  [route |-> route, id |-> id, body |-> body, status |-> status,
   out |-> out, now |-> now, call |-> call]

Init ==
  /\ vocabularyItems = <<>>
  /\ vocabularyId = 1
  /\ clock = 0
  /\ res = Response("none", 0, EmptyBody, 0, <<>>, 0, "none")
  /\ requests = 0
  /\ srsIn = [score |-> 0, now |-> 0, items |-> <<>>]
  /\ srsOut = SrsIdle
  /\ reqs = <<>>
  /\ ClientIdle

\* one more request is handled
Handled ==
  /\ requests < MaxRequests
  /\ requests' = requests + 1

\* time passes
Tick ==
  /\ clock < MaxClock
  /\ clock' = clock + 1
  /\ UNCHANGED <<vocabularyItems, vocabularyId, res, requests, srsVars, reqs, clientVars>>

\* app.post('/api/vocabulary')
PostVocabulary(body) ==
  /\ Handled
  /\ vocabularyId <= MaxId
  /\ IF ~insertVocabularyItemSchemaOk(body)
     THEN /\ res' = Response("POST /api/vocabulary", 0, body, 400, <<>>, clock, "none")
          /\ UNCHANGED <<vocabularyItems, vocabularyId>>
     ELSE LET r == createVocabularyItem(vocabularyItems, vocabularyId,
                     insertVocabularyItemSchemaParse(body), clock)
          IN /\ vocabularyItems' = r.map
             /\ vocabularyId' = r.vocabularyId
             /\ res' = Response("POST /api/vocabulary", 0, body, 201,
                                ItemsToJSON(r.result), clock, "createVocabularyItem")
  /\ UNCHANGED <<clock, srsVars, reqs, clientVars>>

\* app.put('/api/vocabulary/:id')
PutVocabulary(id, body) ==
  LET r == updateVocabularyItem(vocabularyItems, id, body)
  IN /\ Handled
     /\ vocabularyItems' = r.map
     /\ res' = Response("PUT /api/vocabulary/:id", id, body,
                        IF r.result = Undefined THEN 404 ELSE 200,
                        ItemsToJSON(r.result), clock, "updateVocabularyItem")
     /\ UNCHANGED <<vocabularyId, clock, srsVars, reqs, clientVars>>

\* app.delete('/api/vocabulary/:id')
DeleteVocabulary(id) ==
  LET r == deleteVocabularyItem(vocabularyItems, id)
  IN /\ Handled
     /\ vocabularyItems' = r.map
     /\ res' = Response("DELETE /api/vocabulary/:id", id, EmptyBody,
                        IF r.result THEN 204 ELSE 404, <<>>, clock,
                        "deleteVocabularyItem")
     /\ UNCHANGED <<vocabularyId, clock, srsVars, reqs, clientVars>>

\* app.get('/api/vocabulary')
GetVocabulary ==
  /\ Handled
  /\ res' = Response("GET /api/vocabulary", 0, EmptyBody, 200,
                     ItemsToJSON(getVocabularyItems(vocabularyItems)), clock,
                     "getVocabularyItems")
  /\ UNCHANGED <<vocabularyItems, vocabularyId, clock, srsVars, reqs, clientVars>>

\* app.get('/api/review/due')
GetReviewDue ==
  /\ Handled
  /\ res' = Response("GET /api/review/due", 0, EmptyBody, 200,
                     ItemsToJSON(getVocabularyItemsDueForReview(vocabularyItems, clock)),
                     clock, "getVocabularyItemsDueForReview")
  /\ UNCHANGED <<vocabularyItems, vocabularyId, clock, srsVars, reqs, clientVars>>

\* the same looking the entry up before it tests the score
PutReview_lookupFirst(id, body) ==
  LET familiarityScore == Field(body, "familiarityScore")
  IN /\ Handled
     /\ IF ~MapHas(vocabularyItems, id)
        THEN /\ res' = Response("PUT /api/review/:id", id, body, 404, <<>>, clock,
                                "updateVocabularyItemReviewStatus")
             /\ UNCHANGED <<vocabularyItems, clock>>
        ELSE IF ReviewScoreRejected(familiarityScore)
        THEN /\ res' = Response("PUT /api/review/:id", id, body, 400, <<>>, clock, "none")
             /\ UNCHANGED <<vocabularyItems, clock>>
        ELSE \E now2 \in {t \in {clock, clock + 1} : t <= MaxClock} :
               LET r == updateVocabularyItemReviewStatus(vocabularyItems, id,
                          familiarityScore, clock, now2)
               IN /\ vocabularyItems' = r.map
                  /\ clock' = now2
                  /\ res' = Response("PUT /api/review/:id", id, body, 200,
                                     ItemsToJSON(r.result), clock,
                                     "updateVocabularyItemReviewStatus")
     /\ UNCHANGED <<vocabularyId, srsVars, reqs, clientVars>>

\* app.put('/api/review/:id'); the clock may advance between the two
\* new Date() of the storage method
PutReview(id, body) ==
  LET familiarityScore == Field(body, "familiarityScore")
  IN /\ Handled
     /\ IF ReviewScoreRejected(familiarityScore)
        THEN /\ res' = Response("PUT /api/review/:id", id, body, 400, <<>>, clock, "none")
             /\ UNCHANGED <<vocabularyItems, clock>>
        ELSE \E now2 \in {t \in {clock, clock + 1} : t <= MaxClock} :
               LET r == updateVocabularyItemReviewStatus(vocabularyItems, id,
                          familiarityScore, clock, now2)
               IN /\ vocabularyItems' = r.map
                  /\ clock' = IF r.result = Undefined THEN clock ELSE now2
                  /\ res' = Response("PUT /api/review/:id", id, body,
                                     IF r.result = Undefined THEN 404 ELSE 200,
                                     ItemsToJSON(r.result), clock,
                                     "updateVocabularyItemReviewStatus")
     /\ UNCHANGED <<vocabularyId, srsVars, reqs, clientVars>>

Next ==
  \/ Tick
  \/ \E body \in PostBodies : PostVocabulary(body)
  \/ \E id \in Ids, body \in PutBodies : PutVocabulary(id, body)
  \/ \E id \in Ids : DeleteVocabulary(id)
  \/ GetVocabulary
  \/ GetReviewDue
  \/ \E id \in Ids, body \in ReviewBodies : PutReview(id, body)

Spec == Init /\ [][Next]_vars

----------------------------------------------------------------------------
(* Properties of the store behind the REST boundary *)

ReviewRoute == "PUT /api/review/:id"

\* the interval table of the review settings page, in days
TableDays == <<1, 3, 7, 14, 30>>
TableInterval(v) ==
  IF Tag(v) = "num" /\ Payload(v) \in 1..5 THEN TableDays[Payload(v)] ELSE TableDays[1]

\* t plus n days
PlusDays(t, n) == t + n * TicksPerDay

\* the last step handled a request (time passing is not a request)
RequestStep == requests' # requests

\* the familiarityScore a request body carries (null when it carries none)
BodyScore(body) == IF "familiarityScore" \in DOMAIN body THEN body.familiarityScore ELSE Null

\* C1: a successful review with score s at instant t leaves the entry with
\* familiarityScore = s, lastReviewed = t and nextReviewDate = t + the
\* table interval of s (1, 3, 7, 14, 30 days)
C1_ReviewFollowsTable ==
  (res.route = ReviewRoute /\ res.status = 200) =>
    LET e == MapGet(vocabularyItems, res.id)
        s == BodyScore(res.body)
    IN /\ e.familiarityScore = s
       /\ e.lastReviewed = DateV(res.now)
       /\ e.nextReviewDate = DateV(PlusDays(res.now, TableInterval(s)))

\* C3: every entry whose nextReviewDate is set has nextReviewDate =
\* lastReviewed + interval(familiarityScore) days
C3_NextReviewDateFromLastReview ==
  \A i \in DOMAIN vocabularyItems :
    LET e == vocabularyItems[i].value
    IN e.nextReviewDate # Null =>
         /\ Tag(e.nextReviewDate) = "date"
         /\ Tag(e.lastReviewed) = "date"
         /\ Payload(e.nextReviewDate) =
              PlusDays(Payload(e.lastReviewed), TableInterval(e.familiarityScore))

\* selectDue of the specification: the entries whose nextReviewDate is
\* unset or not after t, in the order of the collection
RECURSIVE SelectDue(_, _)
SelectDue(entries, t) ==
  IF entries = <<>> THEN <<>>
  ELSE LET e == Head(entries)
           due == \/ e.nextReviewDate = Null
                  \/ /\ Tag(e.nextReviewDate) \in {"date", "iso"}
                     /\ Payload(e.nextReviewDate) <= t
       IN (IF due THEN <<e>> ELSE <<>>) \o SelectDue(Tail(entries), t)

\* C4: at every instant the storage due query returns exactly what the
\* client's due selection returns over the list of all entries, so an entry
\* with no nextReviewDate is in it
C4_DueQueryIsSelectDue ==
  \A t \in 0..MaxClock :
    /\ getVocabularyItemsDueForReview(vocabularyItems, t)
         = getItemsDueForReview(getVocabularyItems(vocabularyItems), t)
    /\ getVocabularyItemsDueForReview(vocabularyItems, t)
         = SelectDue(getVocabularyItems(vocabularyItems), t)

\* C6: every stored familiarityScore is unset or one of 1..5
C6_ScoreInRange ==
  \A i \in DOMAIN vocabularyItems :
    LET v == vocabularyItems[i].value.familiarityScore
    IN v = Null \/ (Tag(v) = "num" /\ Payload(v) \in 1..5)

\* a score that is not a number, is below 1 or is above 5
OutOfRange(v) == Tag(v) # "num" \/ Payload(v) < 1 \/ Payload(v) > 5

\* C7: a review request whose score is not a number, is below 1 or is above
\* 5 is answered 400, invokes no storage method and changes nothing stored
C7_InvalidScoreRejected ==
  [][(RequestStep /\ res'.route = ReviewRoute /\ OutOfRange(BodyScore(res'.body)))
       => /\ res'.status = 400
          /\ res'.call = "none"
          /\ vocabularyItems' = vocabularyItems
          /\ vocabularyId' = vocabularyId]_vars

\* C7 happens: an out-of-range score was sent for an entry that is stored
C7_Witness ==
  /\ res.route = ReviewRoute
  /\ res.status = 400
  /\ BodyScore(res.body) = Num(6)
  /\ MapHas(vocabularyItems, res.id)

\* C8: a review of an id that is not stored is answered 404 with no entry,
\* and changes neither the entries nor the id counter
C8_ReviewUnknownIdNotFound ==
  [][(RequestStep /\ res'.route = ReviewRoute /\ ~OutOfRange(BodyScore(res'.body))
        /\ ~MapHas(vocabularyItems, res'.id))
       => /\ res'.status = 404
          /\ res'.out = <<>>
          /\ vocabularyItems' = vocabularyItems
          /\ vocabularyId' = vocabularyId]_vars

\* C8 happens: an id never assigned was reviewed while an entry is stored
C8_Witness ==
  /\ res.route = ReviewRoute
  /\ res.status = 404
  /\ res.id >= vocabularyId
  /\ ~MapHas(vocabularyItems, res.id)
  /\ vocabularyItems # <<>>

ReviewFields == {"familiarityScore", "lastReviewed", "nextReviewDate"}

\* C9: a successful review of an entry changes only its familiarityScore,
\* lastReviewed and nextReviewDate; every other entry, and the order of the
\* entries, is unchanged
C9_ReviewFrame ==
  [][(RequestStep /\ res'.route = ReviewRoute /\ res'.status = 200)
       => /\ Len(vocabularyItems') = Len(vocabularyItems)
          /\ \A i \in DOMAIN vocabularyItems :
               /\ vocabularyItems'[i].key = vocabularyItems[i].key
               /\ IF vocabularyItems[i].key = res'.id
                  THEN /\ DOMAIN vocabularyItems'[i].value = DOMAIN vocabularyItems[i].value
                       /\ \A f \in ItemFields \ ReviewFields :
                            vocabularyItems'[i].value[f] = vocabularyItems[i].value[f]
                  ELSE vocabularyItems'[i] = vocabularyItems[i]]_vars

\* C9 happens: the first of two entries, carrying notes of its own, was reviewed
C9_Witness ==
  /\ res.route = ReviewRoute
  /\ res.status = 200
  /\ Len(vocabularyItems) = 2
  /\ vocabularyItems[1].key = res.id
  /\ vocabularyItems[1].value.word = Str(1)
  /\ vocabularyItems[1].value.dateAdded # vocabularyItems[1].value.lastReviewed

\* C19: an entry just created has no lastReviewed, no nextReviewDate and no
\* familiarityScore: no review has scored it yet
C19_CreatedWithoutReviewState ==
  (res.route = "POST /api/vocabulary" /\ res.status = 201) =>
    LET e == MapGet(vocabularyItems, Payload(res.out[1].id))
    IN /\ e.lastReviewed = Null
       /\ e.nextReviewDate = Null
       /\ e.familiarityScore = Null

\* C20: whatever request is handled, an entry that stays stored keeps its
\* id and its dateAdded, and every stored entry carries the id it is stored
\* under
C20_IdAndDateAddedImmutable ==
  [][/\ \A i \in DOMAIN vocabularyItems' :
          vocabularyItems'[i].value.id = Num(vocabularyItems'[i].key)
     /\ \A i \in DOMAIN vocabularyItems :
          LET key == vocabularyItems[i].key
          IN MapHas(vocabularyItems', key) =>
               /\ MapGet(vocabularyItems', key).id = vocabularyItems[i].value.id
               /\ MapGet(vocabularyItems', key).dateAdded
                    = vocabularyItems[i].value.dateAdded]_vars

----------------------------------------------------------------------------
(* Calls of the pure functions of lib/srsSystem.ts.  An item is the JSON   *)
(* form of a vocabulary item as the client holds it; the functions read    *)
(* its nextReviewDate only.                                                *)

SrsItem(id, nextReviewDate) ==
  [id |-> Num(id), familiarityScore |-> Null, nextReviewDate |-> nextReviewDate]

SrsDates == {Null} \cup {Iso(t) : t \in 0..MaxClock}

\* the collections of at most MaxLen items, the item at position i having id i
SrsCollections ==
  UNION {[1..n -> SrsDates] : n \in 0..MaxLen}

SrsItemsOf(dates) == [i \in DOMAIN dates |-> SrsItem(i, dates[i])]

\* a collection of n items of which k are known: the known ones, first or
\* last in the collection, carry the scores 3, 4 and 5 in turn, the others
\* all carry the score low
ScoredItems(n, k, knownFirst, low) ==
  [i \in 1..n |->
     [id |-> Num(i),
      familiarityScore |->
        IF (knownFirst /\ i <= k) \/ (~knownFirst /\ i > n - k)
        THEN Num(3 + (i % 3)) ELSE low,
      nextReviewDate |-> Null]]

\* the scores of the items not known: unset, or below 3
LowScores == {Null, Num(2)}

InitSrs ==
  /\ vocabularyItems = <<>>
  /\ vocabularyId = 1
  /\ clock = 0
  /\ res = Response("none", 0, EmptyBody, 0, <<>>, 0, "none")
  /\ requests = 0
  /\ srsOut = SrsIdle
  /\ reqs = <<>>
  /\ ClientIdle
  /\ \/ \E score \in -1..MaxScore, now \in 0..MaxClock :
          srsIn = [score |-> score, now |-> now, items |-> <<>>]
     \/ \E dates \in SrsCollections, now \in 0..MaxClock :
          srsIn = [score |-> 0, now |-> now, items |-> SrsItemsOf(dates)]
     \/ \E n \in 0..MaxEntries, knownFirst \in BOOLEAN, low \in LowScores :
          \E k \in 0..n :
            srsIn = [score |-> 0, now |-> 0,
                     items |-> ScoredItems(n, k, knownFirst, low)]

\* calculateNextReviewDate(familiarityScore, lastReviewed)
CallCalculateNextReviewDate ==
  /\ srsOut' = [fn |-> "calculateNextReviewDate",
                date |-> calculateNextReviewDate(srsIn.score, srsIn.now),
                items |-> <<>>]
  /\ UNCHANGED <<serverVars, srsIn, reqs, clientVars>>

\* getItemsDueForReview(vocabularyItems), new Date() reading srsIn.now
CallGetItemsDueForReview ==
  /\ Len(srsIn.items) <= MaxLen
  /\ srsOut' = [fn |-> "getItemsDueForReview", date |-> 0,
                items |-> getItemsDueForReview(srsIn.items, srsIn.now)]
  /\ UNCHANGED <<serverVars, srsIn, reqs, clientVars>>

\* the due filter of the Vocabulary page, new Date() reading srsIn.now
CallVocabularyPageDue ==
  /\ Len(srsIn.items) <= MaxLen
  /\ srsOut' = [fn |-> "VocabularyPageDue", date |-> 0,
                items |-> VocabularyPageDue(srsIn.items, srsIn.now)]
  /\ UNCHANGED <<serverVars, srsIn, reqs, clientVars>>

\* sortItemsByDueDate(vocabularyItems) on a page run by the engine
CallSortItemsByDueDate(engine) ==
  LET r == sortItemsByDueDate(srsIn.items, engine)
  IN /\ Len(srsIn.items) <= MaxLen
     /\ srsOut' = [fn |-> "sortItemsByDueDate", date |-> 0, items |-> r.result,
                   engine |-> engine]
     /\ srsIn' = [srsIn EXCEPT !.items = r.input]
     /\ UNCHANGED <<serverVars, reqs, clientVars>>

\* sortItemsByDueDate applied to what it returned, on the same page
CallSortItemsByDueDateAgain ==
  /\ srsOut.fn = "sortItemsByDueDate"
  /\ LET r == sortItemsByDueDate(srsOut.items, srsOut.engine)
     IN srsOut' = [fn |-> "sortItemsByDueDate again", date |-> 0,
                   items |-> r.result, engine |-> srsOut.engine]
  /\ UNCHANGED <<serverVars, srsIn, reqs, clientVars>>

\* calculateRetentionScore(vocabularyItems)
CallCalculateRetentionScore ==
  /\ srsOut' = [fn |-> "calculateRetentionScore", date |-> 0, items |-> <<>>,
                value |-> calculateRetentionScore(srsIn.items)]
  /\ UNCHANGED <<serverVars, srsIn, reqs, clientVars>>

\* the scores a review gives to an item the learner knows: the Good and the
\* Perfect buttons
KnownScores == {3, 5}

\* the collection comes back with item i, so far not known, scored 3 or
\* more by a review (srsIn.score, 0 before the review), and
\* calculateRetentionScore is called on it
RaiseFamiliarity(i, score) ==
  /\ srsOut.fn = "calculateRetentionScore"
  /\ srsIn.score = 0
  /\ i \in DOMAIN srsIn.items
  /\ \/ srsIn.items[i].familiarityScore = Null
     \/ Payload(srsIn.items[i].familiarityScore) < 3
  /\ srsIn' = [srsIn EXCEPT !.score = score,
                             !.items[i].familiarityScore = Num(score)]
  /\ srsOut' = [fn |-> "calculateRetentionScore after review", date |-> 0,
                items |-> <<>>, value |-> calculateRetentionScore(srsIn'.items),
                before |-> srsOut.value, raised |-> i]
  /\ UNCHANGED <<serverVars, reqs, clientVars>>

NextSrs ==
  \/ CallCalculateRetentionScore
  \/ \E i \in 1..MaxEntries, score \in KnownScores : RaiseFamiliarity(i, score)
  \/ CallCalculateNextReviewDate
  \/ CallGetItemsDueForReview
  \/ CallVocabularyPageDue
  \/ \E engine \in Engines : CallSortItemsByDueDate(engine)
  \/ CallSortItemsByDueDateAgain

SpecSrs == InitSrs /\ [][NextSrs]_vars

\* C2: calculateNextReviewDate adds 1, 3, 7, 14, 30 days for the scores 1..5
\* and 1 day for every other integer score, and returns a date for each
C2_IntervalTable ==
  srsOut.fn = "calculateNextReviewDate" =>
    /\ srsOut.date \in Nat
    /\ srsOut.date = PlusDays(srsIn.now,
         CASE srsIn.score = 1 -> 1
           [] srsIn.score = 2 -> 3
           [] srsIn.score = 3 -> 7
           [] srsIn.score = 4 -> 14
           [] srsIn.score = 5 -> 30
           [] OTHER -> 1)

\* C2 happens: a score above the table got the 1-day interval
C2_Witness ==
  /\ srsOut.fn = "calculateNextReviewDate"
  /\ srsIn.score = 6
  /\ srsOut.date = srsIn.now + TicksPerDay

\* C5: the due selection at instant t returns exactly the entries whose
\* nextReviewDate is unset or not after t, in their order
C5_DueSelectionExact ==
  srsOut.fn \in {"getItemsDueForReview", "VocabularyPageDue"} =>
    srsOut.items = SelectDue(srsIn.items, srsIn.now)

\* C5 happens: of three entries the one due exactly now and the one never
\* scheduled are returned, the one due later is not
C5_Witness ==
  /\ srsOut.fn = "getItemsDueForReview"
  /\ srsIn.now < MaxClock
  /\ srsIn.items = SrsItemsOf(<<Iso(srsIn.now), Iso(srsIn.now + 1), Null>>)
  /\ srsOut.items = <<srsIn.items[1], srsIn.items[3]>>

\* the item has no nextReviewDate
Unset(item) == item.nextReviewDate = Null

\* C13: sortItemsByDueDate returns every entry with no nextReviewDate before
\* every entry that has one, and the entries that have one in ascending
\* order of nextReviewDate
C13_UnsetFirstThenAscending ==
  srsOut.fn = "sortItemsByDueDate" =>
    \A i, j \in DOMAIN srsOut.items : i < j =>
      LET a == srsOut.items[i]
          b == srsOut.items[j]
      IN /\ Unset(b) => Unset(a)
         /\ (~Unset(a) /\ ~Unset(b)) =>
              Payload(a.nextReviewDate) <= Payload(b.nextReviewDate)

\* C13 happens: a later date, an entry never scheduled and an earlier date
\* come back as the unscheduled entry, the earlier date, the later date
C13_Witness ==
  /\ srsOut.fn = "sortItemsByDueDate"
  /\ srsIn.items = SrsItemsOf(<<Iso(1), Null, Iso(0)>>)
  /\ srsOut.items = <<srsIn.items[2], srsIn.items[3], srsIn.items[1]>>

\* C14: sortItemsByDueDate applied to a sequence it returned returns the
\* same sequence
C14_SortIdempotent ==
  [][(srsOut.fn = "sortItemsByDueDate" /\ srsOut'.fn = "sortItemsByDueDate again")
       => srsOut'.items = srsOut.items]_vars

\* the number of positions of seq that hold x
Count(seq, x) == Cardinality({i \in DOMAIN seq : seq[i] = x})

IsPermutation(a, b) ==
  /\ Len(a) = Len(b)
  /\ \A i \in DOMAIN a : Count(a, a[i]) = Count(b, a[i])

\* C15: sortItemsByDueDate leaves its argument as it was and returns a
\* permutation of it
C15_SortKeepsInputReturnsPermutation ==
  [][srsOut'.fn = "sortItemsByDueDate"
       => /\ srsIn'.items = srsIn.items
          /\ IsPermutation(srsOut'.items, srsIn.items)]_vars

\* C15 happens: three entries came back in another order, the argument
\* still in its own
C15_Witness ==
  /\ srsOut.fn = "sortItemsByDueDate"
  /\ Len(srsIn.items) = 3
  /\ \A i \in 1..3 : srsIn.items[i].id = Num(i)
  /\ srsOut.items[1].id = Num(3)
  /\ srsOut.items # srsIn.items

\* the number of entries whose familiarityScore is set and is 3 or more
KnownCount(entries) ==
  Cardinality({i \in DOMAIN entries :
                 /\ Tag(entries[i].familiarityScore) = "num"
                 /\ Payload(entries[i].familiarityScore) >= 3})

\* 100 * k / n rounded to the nearest integer, an exact half going up
RoundedPercent(k, n) == (200 * k + n) \div (2 * n)

\* C16: for a non-empty collection calculateRetentionScore returns 100 times
\* the share of the entries scored 3 or more, an unset score counting as
\* not known, rounded to the nearest integer with exact halves up; the
\* result is an integer of 0..100
C16_RetentionIsRoundedShare ==
  (srsOut.fn = "calculateRetentionScore" /\ srsIn.items # <<>>) =>
    /\ Tag(srsOut.value) = "num"
    /\ Payload(srsOut.value) \in 0..100
    /\ Payload(srsOut.value) = RoundedPercent(KnownCount(srsIn.items), Len(srsIn.items))

\* C17: calculateRetentionScore of the empty collection returns the number 0
C17_EmptyRetentionIsZero ==
  (srsOut.fn = "calculateRetentionScore" /\ srsIn.items = <<>>) =>
    srsOut.value = Num(0)

\* C17 happens: the function was called on the empty collection and
\* returned 0
C17_Witness ==
  /\ srsOut.fn = "calculateRetentionScore"
  /\ Len(srsIn.items) = 0
  /\ IsNumber(srsOut.value)
  /\ Payload(srsOut.value) = 0

\* C18: when one entry of a collection goes from a score below 3, or none,
\* to a score of 3 or more and nothing else changes, calculateRetentionScore
\* does not decrease
C18_RetentionMonotone ==
  [][(/\ srsOut.fn = "calculateRetentionScore"
      /\ srsOut'.fn = "calculateRetentionScore after review")
       => /\ IsNumber(srsOut.value) /\ IsNumber(srsOut'.value)
          /\ Payload(srsOut'.value) >= Payload(srsOut.value)]_vars

\* C18 happens: in a collection of eight, none known, the last entry, whose
\* score was unset, was scored 5 by a review; the retention went from 0 to 13
C18_Witness ==
  /\ srsOut.fn = "calculateRetentionScore after review"
  /\ Len(srsIn.items) = 8
  /\ srsOut.raised = 8
  /\ srsIn.items[8].familiarityScore = Num(5)
  /\ srsIn.items[1].familiarityScore = Null
  /\ srsOut.before = Num(0)
  /\ srsOut.value = Num(13)

----------------------------------------------------------------------------
(* Concurrent requests.  A handler runs from its start to its `await       *)
(* storage...` in one turn of the event loop: the storage methods contain  *)
(* no await, so the validation and the whole storage call are one step.    *)
(* The rest of the handler (the status and res.json) is a second step,     *)
(* which the model lets any other handler's step precede.                  *)

\* the store after the capture of MaxId words at instant 0
RECURSIVE Captured(_)
Captured(n) ==
  IF n = 0 THEN [map |-> <<>>, vocabularyId |-> 1]
  ELSE LET before == Captured(n - 1)
       IN createVocabularyItem(before.map, before.vocabularyId,
                               insertVocabularyItemSchemaParse(PostBase), 0)

\* the scores the model's learner gives: the first and the last of the
\* rating buttons of FlashcardReview
RatedScores == {1, 5}

\* a request whose handler has reached its await
Request(route, id, body, now, now2, result) ==
  [route |-> route, id |-> id, body |-> body, phase |-> "awaiting",
   now |-> now, now2 |-> now2, status |-> 0, result |-> result, out |-> <<>>]

InitConc ==
  /\ vocabularyItems = Captured(MaxId).map
  /\ vocabularyId = Captured(MaxId).vocabularyId
  /\ clock = 0
  /\ res = Response("none", 0, EmptyBody, 0, <<>>, 0, "none")
  /\ requests = 0
  /\ srsIn = [score |-> 0, now |-> 0, items |-> <<>>]
  /\ srsOut = SrsIdle
  /\ reqs = <<>>
  /\ ClientIdle

\* time passes
TickConc ==
  /\ clock < MaxClock
  /\ clock' = clock + 1
  /\ UNCHANGED <<vocabularyItems, vocabularyId, res, requests, srsVars, reqs, clientVars>>

\* handleReviewScore fires the PUT and does not wait for its response, so a
\* PUT arrives while earlier requests are still being answered;
\* app.put('/api/review/:id') runs up to its await
HandleReview(id, score) ==
  /\ Len(reqs) < MaxInFlight
  /\ LET body == [familiarityScore |-> Num(score)]
         familiarityScore == Field(body, "familiarityScore")
     IN IF ReviewScoreRejected(familiarityScore)
        THEN /\ reqs' = Append(reqs,
                  [Request(ReviewRoute, id, body, clock, clock, <<>>)
                     EXCEPT !.phase = "done", !.status = 400])
             /\ UNCHANGED <<vocabularyItems, clock>>
        ELSE \E now2 \in {t \in {clock, clock + 1} : t <= MaxClock} :
               LET s == updateVocabularyItemReviewStatus(vocabularyItems, id,
                          familiarityScore, clock, now2)
               IN /\ vocabularyItems' = s.map
                  /\ clock' = IF s.result = Undefined THEN clock ELSE now2
                  /\ reqs' = Append(reqs,
                       Request(ReviewRoute, id, body, clock, now2, s.result))
  /\ UNCHANGED <<vocabularyId, res, requests, srsVars, clientVars>>

\* app.get('/api/review/due') up to its await
HandleGetReviewDue ==
  /\ Len(reqs) < MaxInFlight
  /\ reqs' = Append(reqs, Request("GET /api/review/due", 0, EmptyBody, clock, clock,
                getVocabularyItemsDueForReview(vocabularyItems, clock)))
  /\ UNCHANGED <<serverVars, srsVars, clientVars>>

\* app.get('/api/vocabulary') up to its await
HandleGetVocabulary ==
  /\ Len(reqs) < MaxInFlight
  /\ reqs' = Append(reqs, Request("GET /api/vocabulary", 0, EmptyBody, clock, clock,
                getVocabularyItems(vocabularyItems)))
  /\ UNCHANGED <<serverVars, srsVars, clientVars>>

\* a handler after its await: the status and res.json
Resume(r) ==
  /\ r \in DOMAIN reqs
  /\ reqs[r].phase = "awaiting"
  /\ reqs' = [reqs EXCEPT ![r].phase = "done",
                ![r].status = IF reqs[r].route = ReviewRoute /\ reqs[r].result = Undefined
                              THEN 404 ELSE 200,
                ![r].out = ItemsToJSON(reqs[r].result)]
  /\ UNCHANGED <<serverVars, srsVars, clientVars>>

NextConc ==
  \/ TickConc
  \/ \E id \in Ids, score \in RatedScores : HandleReview(id, score)
  \/ HandleGetReviewDue
  \/ HandleGetVocabulary
  \/ \E r \in 1..MaxInFlight : Resume(r)

SpecConc == InitConc /\ [][NextConc]_vars

\* the review state of an item, as JSON
Triple(item) ==
  <<ToJSON(item.familiarityScore), ToJSON(item.lastReviewed), ToJSON(item.nextReviewDate)>>

\* the review state one submission writes: its score, the instant it read
\* and the date it computed from that instant
SubmissionTriple(r) ==
  <<r.body.familiarityScore, Iso(r.now),
    Iso((getDate(r.now) + 2 ^ Payload(r.body.familiarityScore)) * TicksPerDay
          + (r.now2 % TicksPerDay))>>

\* the review submissions that reached the storage update of entry id
Submissions(id) ==
  {r \in DOMAIN reqs : /\ reqs[r].route = ReviewRoute
                       /\ reqs[r].id = id
                       /\ reqs[r].result # Undefined}

\* the review state of the item is as its capture left it, or is all of it
\* the state written by one submission for the item
FromOneWriter(item) ==
  \/ Triple(item) = <<Null, ToJSON(item.dateAdded), ToJSON(item.dateAdded)>>
  \/ \E r \in Submissions(Payload(item.id)) : Triple(item) = SubmissionTriple(reqs[r])

\* C10: whatever the interleaving of the review submissions for an entry and
\* of the reads, the stored review state of the entry, and every review
\* state of it a response carries, is whole: score and both dates come from
\* one submission
C10_ReviewStateFromOneSubmission ==
  /\ \A i \in DOMAIN vocabularyItems : FromOneWriter(vocabularyItems[i].value)
  /\ \A r \in DOMAIN reqs :
       /\ \A i \in DOMAIN reqs[r].result : FromOneWriter(reqs[r].result[i])
       /\ \A i \in DOMAIN reqs[r].out : FromOneWriter(reqs[r].out[i])

\* C10 happens: two submissions with different scores for one entry, taken
\* at different instants, are both between their storage update and their
\* response; the entry holds the state of the second, the first is about to
\* answer with its own
C10_Witness ==
  \E a, b \in DOMAIN reqs :
    /\ reqs[a].route = ReviewRoute /\ reqs[b].route = ReviewRoute
    /\ reqs[a].id = reqs[b].id
    /\ reqs[a].body # reqs[b].body
    /\ reqs[a].phase = "awaiting" /\ reqs[b].phase = "awaiting"
    /\ reqs[a].now < reqs[b].now
    /\ Triple(reqs[a].result[1]) = SubmissionTriple(reqs[a])
    /\ Triple(MapGet(vocabularyItems, reqs[b].id)) = SubmissionTriple(reqs[b])

\* the store every behaviour of SpecConc starts from
CapturedStore == Captured(MaxId).map

\* the state of entry id had the review submissions for it, the first n
\* requests taken up, run alone on the captured store, each with the clock
\* readings it took
RECURSIVE ReviewedAlone(_, _)
ReviewedAlone(id, n) ==
  IF n = 0 THEN MapGet(CapturedStore, id)
  ELSE LET before == ReviewedAlone(id, n - 1)
           r == reqs[n]
       IN IF r.route = ReviewRoute /\ r.id = id /\ r.result # Undefined
          THEN updateVocabularyItemReviewStatus(
                 <<[key |-> id, value |-> before]>>, id,
                 r.body.familiarityScore, r.now, r.now2).result[1]
          ELSE before

\* the store after the review of a, then of b
ReviewedBoth(map, a, sa, ta, b, sb, tb) ==
  updateVocabularyItemReviewStatus(
    updateVocabularyItemReviewStatus(map, a, Num(sa), ta, ta).map,
    b, Num(sb), tb, tb).map

\* C11: review submissions for different entries are independent: in every
\* interleaving each entry is in the state its own submissions alone would
\* have left it in, the entries keep their order, and from every store
\* reached the reviews of two different entries give the same store in
\* either order of completion
C11_DifferentIdsIndependent ==
  /\ Len(vocabularyItems) = MaxId
  /\ \A i \in DOMAIN vocabularyItems :
       /\ vocabularyItems[i].key = CapturedStore[i].key
       /\ vocabularyItems[i].value = ReviewedAlone(vocabularyItems[i].key, Len(reqs))
  /\ \A a, b \in Ids : a < b =>
       \A sa, sb \in RatedScores : \A ta \in {clock}, tb \in {clock, MaxClock} :
         ReviewedBoth(vocabularyItems, a, sa, ta, b, sb, tb)
           = ReviewedBoth(vocabularyItems, b, sb, tb, a, sa, ta)

\* C11 happens: submissions for two different entries are in flight at the
\* same time, taken at different instants with different scores; the later
\* one has answered first, and both entries hold their own submission
C11_Witness ==
  /\ Len(reqs) = 2
  /\ reqs[1].route = ReviewRoute /\ reqs[2].route = ReviewRoute
  /\ reqs[1].id = 2 /\ reqs[2].id = 1
  /\ reqs[1].body # reqs[2].body
  /\ reqs[1].now < reqs[2].now
  /\ reqs[1].phase = "awaiting" /\ reqs[2].phase = "done"
  /\ Triple(MapGet(vocabularyItems, 2)) = SubmissionTriple(reqs[1])
  /\ Triple(MapGet(vocabularyItems, 1)) = SubmissionTriple(reqs[2])

----------------------------------------------------------------------------
(* Direct calls of MemStorage.  IStorage types familiarityScore as a       *)
(* number and the storage methods check nothing, so a caller other than    *)
(* the review route can pass any integer.                                  *)

StorageCaller == "MemStorage"

InitStore ==
  /\ vocabularyItems = <<>>
  /\ vocabularyId = 1
  /\ clock = 0
  /\ res = Response("none", 0, EmptyBody, 0, <<>>, 0, "none")
  /\ requests = 0
  /\ srsIn = [score |-> 0, now |-> 0, items |-> <<>>]
  /\ srsOut = SrsIdle
  /\ reqs = <<>>
  /\ ClientIdle

\* time passes
TickStore ==
  /\ clock < MaxClock
  /\ clock' = clock + 1
  /\ UNCHANGED <<vocabularyItems, vocabularyId, res, requests, srsVars, reqs, clientVars>>

\* storage.createVocabularyItem(item)
CallCreateVocabularyItem ==
  /\ Handled
  /\ vocabularyId <= MaxId
  /\ LET r == createVocabularyItem(vocabularyItems, vocabularyId,
                 insertVocabularyItemSchemaParse(PostBase), clock)
     IN /\ vocabularyItems' = r.map
        /\ vocabularyId' = r.vocabularyId
        /\ res' = Response(StorageCaller, 0, PostBase, 0, r.result, clock,
                           "createVocabularyItem")
  /\ UNCHANGED <<clock, srsVars, reqs, clientVars>>

\* storage.updateVocabularyItemReviewStatus(id, familiarityScore); the
\* clock may advance between the two new Date() of the method
CallUpdateVocabularyItemReviewStatus(id, score) ==
  /\ Handled
  /\ \E now2 \in {t \in {clock, clock + 1} : t <= MaxClock} :
       LET r == updateVocabularyItemReviewStatus(vocabularyItems, id,
                  Num(score), clock, now2)
       IN /\ vocabularyItems' = r.map
          /\ clock' = IF r.result = Undefined THEN clock ELSE now2
          /\ res' = Response(StorageCaller, id, [familiarityScore |-> Num(score)],
                             0, r.result, clock, "updateVocabularyItemReviewStatus")
  /\ UNCHANGED <<vocabularyId, srsVars, reqs, clientVars>>

NextStore ==
  \/ TickStore
  \/ CallCreateVocabularyItem
  \/ \E id \in Ids, score \in -1..MaxScore :
       CallUpdateVocabularyItemReviewStatus(id, score)

SpecStore == InitStore /\ [][NextStore]_vars

\* C12: the storage review of a stored entry with a score outside 1..5
\* returns the entry, scheduled for the day after the day of the review
\* instant and no later
C12_StorageFallsBackToOneDay ==
  (/\ res.route = StorageCaller
   /\ res.call = "updateVocabularyItemReviewStatus"
   /\ OutOfRange(BodyScore(res.body))
   /\ MapHas(vocabularyItems, res.id))
    => /\ res.out # Undefined
       /\ Tag(res.out[1].nextReviewDate) = "date"
       /\ getDate(Payload(res.out[1].nextReviewDate)) = getDate(res.now) + 1

----------------------------------------------------------------------------
(* Further properties of the REST boundary (Spec) *)

\* C30: a review request for an id that is not stored is answered 400 when
\* its score is not a number of 1..5, whatever the id, and 404 when its
\* score is one: the score is tested before the entry is looked up
C30_ScoreCheckedBeforeLookup ==
  [][(RequestStep /\ res'.route = ReviewRoute /\ ~MapHas(vocabularyItems, res'.id))
       => res'.status = IF OutOfRange(BodyScore(res'.body)) THEN 400 ELSE 404]_vars

\* C30 happens: a request with no score at all for an id never assigned was
\* answered 400
C30_Witness ==
  /\ res.route = ReviewRoute
  /\ res.body = EmptyBody
  /\ res.id >= vocabularyId
  /\ res.status = 400

\* C26: createVocabularyItem returns an id greater than every id it returned
\* before; the ids stored are distinct and were all assigned; an id that
\* was assigned and is no longer stored is never stored again, and an edit
\* or a review with a score of 1..5 addressed to it is answered 404
C26_IdsNeverReused ==
  [][/\ vocabularyId' >= vocabularyId
     /\ \A i \in DOMAIN vocabularyItems' : vocabularyItems'[i].key < vocabularyId'
     /\ \A i, j \in DOMAIN vocabularyItems' :
          vocabularyItems'[i].key = vocabularyItems'[j].key => i = j
     /\ (res'.call = "createVocabularyItem" /\ RequestStep) =>
          /\ res'.out[1].id = Num(vocabularyId)
          /\ vocabularyId' = vocabularyId + 1
          /\ \A i \in DOMAIN vocabularyItems : vocabularyItems[i].key < vocabularyId
     /\ \A id \in 1..(vocabularyId - 1) :
          ~MapHas(vocabularyItems, id) =>
            /\ ~MapHas(vocabularyItems', id)
            /\ (RequestStep /\ res'.id = id
                  /\ res'.route \in {ReviewRoute, "PUT /api/vocabulary/:id"})
                 => res'.status = IF res'.route = ReviewRoute
                                       /\ OutOfRange(BodyScore(res'.body))
                                    THEN 400 ELSE 404]_vars

\* C26 happens: the first entry was deleted and the entry created after it
\* got the next id, not the id set free
C26_Witness ==
  /\ res.call = "createVocabularyItem"
  /\ res.out[1].id = Num(2)
  /\ MapKeys(vocabularyItems) = {2}

\* the review state storage gives the entry stored under key when it is
\* reviewed with this score at these two readings of the clock
ScheduleOf(map, key, score, now, now2) ==
  Triple(updateVocabularyItemReviewStatus(map, key, score, now, now2).result[1])

\* C22: the review state a review leaves depends only on the score and on
\* the instant: any two stored entries, whatever their state before,
\* reviewed with the score of the request at the instants the request read
\* get the same familiarityScore, lastReviewed and nextReviewDate, which is
\* the state the reviewed entry got
C22_ScheduleIgnoresHistory ==
  [][(RequestStep /\ res'.route = ReviewRoute /\ res'.status = 200) =>
       \A a, b \in MapKeys(vocabularyItems) :
         LET s == BodyScore(res'.body)
         IN /\ ScheduleOf(vocabularyItems, a, s, res'.now, clock')
                 = ScheduleOf(vocabularyItems, b, s, res'.now, clock')
            /\ ScheduleOf(vocabularyItems, a, s, res'.now, clock')
                 = Triple(MapGet(vocabularyItems', res'.id))]_vars

\* C22 happens: an entry created with a score was reviewed while an entry
\* created later, with no score and other dates, is stored next to it
C22_Witness ==
  /\ res.route = ReviewRoute
  /\ res.status = 200
  /\ \E a, b \in MapKeys(vocabularyItems) :
       /\ a = res.id
       /\ b # a
       /\ MapGet(vocabularyItems, a).dateAdded # MapGet(vocabularyItems, b).dateAdded
       /\ MapGet(vocabularyItems, b).familiarityScore = Null
       /\ res.out[1].familiarityScore # Null

\* C27: after a successful review read at instant t, and as long as no
\* other request was handled, the entry is not in the storage due list of
\* any instant from t to less than one day after t
C27_ReviewedNotDueWithinADay ==
  (res.route = ReviewRoute /\ res.status = 200) =>
    \A t \in res.now..(res.now + TicksPerDay - 1) :
      ~IsDueServer(MapGet(vocabularyItems, res.id), t)

\* C27 happens: time has passed since an entry was reviewed with the lowest
\* score
C27_Witness ==
  /\ res.route = ReviewRoute
  /\ res.status = 200
  /\ BodyScore(res.body) = Num(1)
  /\ clock > res.now

\* C28: after an entry was created at instant t, and as long as no other
\* request was handled, the entry is in the storage due list of every
\* instant from t on, and in what the client's due filter keeps of the
\* listing of all entries at that instant
C28_CreatedIsDue ==
  (res.call = "createVocabularyItem" /\ res.status = 201) =>
    \A t \in res.now..(MaxClock + TicksPerDay) :
      LET serverDue == ItemsToJSON(getVocabularyItemsDueForReview(vocabularyItems, t))
          clientDue == getItemsDueForReview(ItemsToJSON(getVocabularyItems(vocabularyItems)), t)
      IN /\ \E i \in DOMAIN serverDue : serverDue[i] = res.out[1]
         /\ \E i \in DOMAIN clientDue : clientDue[i] = res.out[1]

\* C28 happens: time has passed since the second entry was created
C28_Witness ==
  /\ res.call = "createVocabularyItem"
  /\ res.status = 201
  /\ res.out[1].id = Num(2)
  /\ clock > res.now

----------------------------------------------------------------------------
(* Further properties of srsSystem (SpecSrs) *)

\* the position of the entry in the sequence that holds it once
PositionOf(seq, x) == CHOOSE k \in DOMAIN seq : seq[k] = x

\* neither entry has a nextReviewDate, or both have the same one
TiedOnDueDate(a, b) ==
  \/ Unset(a) /\ Unset(b)
  \/ ~Unset(a) /\ ~Unset(b) /\ Payload(a.nextReviewDate) = Payload(b.nextReviewDate)

\* C23: sortItemsByDueDate is stable: two entries that both have no
\* nextReviewDate, or have equal ones, come back in the order they had in
\* the argument
C23_SortStableOnTies ==
  srsOut.fn = "sortItemsByDueDate" =>
    \A i, j \in DOMAIN srsIn.items :
      (i < j /\ TiedOnDueDate(srsIn.items[i], srsIn.items[j])) =>
        PositionOf(srsOut.items, srsIn.items[i]) < PositionOf(srsOut.items, srsIn.items[j])

----------------------------------------------------------------------------
(* Reviews followed through time: one captured entry is reviewed during    *)
(* the first day and the clock runs on for MaxDays days.  Time never       *)
(* stops, which is the weak fairness of TickLive.                          *)

InitLive ==
  /\ vocabularyItems = Captured(1).map
  /\ vocabularyId = Captured(1).vocabularyId
  /\ clock = 0
  /\ res = Response("none", 0, EmptyBody, 0, <<>>, 0, "none")
  /\ requests = 0
  /\ srsIn = [score |-> 0, now |-> 0, items |-> <<>>]
  /\ srsOut = SrsIdle
  /\ reqs = <<>>
  /\ ClientIdle

\* time passes
TickLive ==
  /\ clock < MaxDays * TicksPerDay
  /\ clock' = clock + 1
  /\ UNCHANGED <<vocabularyItems, vocabularyId, res, requests, srsVars, reqs, clientVars>>

\* PUT /api/review/:id during the first day
ReviewLive(id, body) ==
  /\ clock < TicksPerDay
  /\ PutReview(id, body)

\* DELETE /api/vocabulary/:id during the first day
DeleteLive(id) ==
  /\ clock < TicksPerDay
  /\ DeleteVocabulary(id)

NextLive ==
  \/ TickLive
  \/ \E id \in Ids, body \in ReviewBodies : ReviewLive(id, body)
  \/ \E id \in Ids : DeleteLive(id)
  \/ GetReviewDue

SpecLive == InitLive /\ [][NextLive]_vars /\ WF_vars(TickLive)

\* the entry stored under id is in the storage due list of this instant
DueNow(id) == MapHas(vocabularyItems, id) /\ IsDueServer(MapGet(vocabularyItems, id), clock)

\* C29: as time advances, a stored entry that is not due, which is an entry
\* that was reviewed, becomes due unless it is reviewed again or deleted
\* first; and an entry that is due and is not touched by a step is still
\* due after it
C29_ReviewedBecomesDueAgain ==
  /\ \A id \in Ids :
       (MapHas(vocabularyItems, id) /\ ~DueNow(id))
         ~> (DueNow(id) \/ ~MapHas(vocabularyItems, id))
  /\ [][\A id \in Ids :
          (/\ DueNow(id)
           /\ MapHas(vocabularyItems', id)
           /\ MapGet(vocabularyItems', id) = MapGet(vocabularyItems, id))
            => IsDueServer(MapGet(vocabularyItems', id), clock')]_vars

\* C29 happens: an entry reviewed with the highest score on the first day is
\* in the due list again, 32 days later
C29_Witness ==
  /\ DueNow(1)
  /\ MapGet(vocabularyItems, 1).familiarityScore = Num(5)
  /\ Payload(MapGet(vocabularyItems, 1).lastReviewed) < TicksPerDay
  /\ clock >= 32 * TicksPerDay

----------------------------------------------------------------------------
(* A review session: FlashcardReview mounted on the flashcard page, the    *)
(* learner flipping, rating, skipping and going back, the server answering *)
(* the due query and the review requests in any order, and the Vocabulary  *)
(* page of another tab deleting entries.  Every action of the component is *)
(* the handler, the render that follows it and the effect after it.        *)

\* the query key, which is the URL the query fetches
DueQueryKey == "/api/review/due"

\* apiRequest(method, url, data): the request as it leaves the browser
apiRequest(method, url, data) ==
  [method |-> method, url |-> url, data |-> data, phase |-> "sent", status |-> 0]

\* the rating the learner of the session gives: the last of the rating
\* buttons, which differ in nothing but the score they send
SessionScores == {5}

\* the id a card carries, a number
CardId(card) == Payload(card.id)

\* the same without the early return for an empty list
Rendered_noEmptyBranch(loading, cards, complete, index) ==
  IF loading THEN "loading"
  ELSE IF complete THEN "complete"
  ELSE IF index < Len(cards) THEN "card"
  ELSE "crashed"

\* the branch of the render function that is taken: the loading spinner,
\* 'No Flashcards Due', 'Review Complete!' or the card; "crashed" is the
\* card branch reading currentCard.word of an undefined currentCard, which
\* throws and unmounts the component
Rendered(loading, cards, complete, index) ==
  IF loading THEN "loading"
  ELSE IF Len(cards) = 0 THEN "empty"
  ELSE IF complete THEN "complete"
  ELSE IF index < Len(cards) THEN "card"
  ELSE "crashed"

\* the useEffect on [currentCardIndex, flashcards.length], which runs after
\* a render that was committed
EffectSetsComplete(rendered, cards, index) ==
  rendered # "crashed" /\ Len(cards) > 0 /\ index >= Len(cards)

\* a render with this state, its effect and the render the effect causes
Commit(loading, cards, index, flipped) ==
  LET first == Rendered(loading, cards, reviewComplete, index)
      complete == reviewComplete \/ EffectSetsComplete(first, cards, index)
  IN /\ isLoading' = loading
     /\ flashcards' = cards
     /\ currentCardIndex' = index
     /\ isFlipped' = flipped
     /\ reviewComplete' = complete
     /\ view' = IF first = "crashed" THEN "crashed"
                ELSE Rendered(loading, cards, complete, index)

\* the component is on the page
Mounted == view \notin {"unmounted", "crashed"}

\* the flashcard page opens over a store of MaxId captured words:
\* FlashcardReview renders the spinner and the due query is fetched
InitSession ==
  /\ vocabularyItems = Captured(MaxId).map
  /\ vocabularyId = Captured(MaxId).vocabularyId
  /\ clock = 0
  /\ res = Response("none", 0, EmptyBody, 0, <<>>, 0, "none")
  /\ requests = 0
  /\ srsIn = [score |-> 0, now |-> 0, items |-> <<>>]
  /\ srsOut = SrsIdle
  /\ reqs = <<>>
  /\ flashcards = <<>>
  /\ isLoading = TRUE
  /\ currentCardIndex = 0
  /\ isFlipped = FALSE
  /\ reviewComplete = FALSE
  /\ view = "loading"
  /\ dueFetch = [phase |-> "sent", status |-> 0, data |-> <<>>]
  /\ mutations = <<>>
  /\ session = NoSession

\* time passes
TickSession ==
  /\ clock < MaxClock
  /\ clock' = clock + 1
  /\ UNCHANGED <<vocabularyItems, vocabularyId, res, requests, srsVars, reqs, clientVars>>

\* app.get('/api/review/due') answers the fetch
ServeDue ==
  /\ dueFetch.phase = "sent"
  /\ dueFetch' = [phase |-> "answered", status |-> 200,
                  data |-> ItemsToJSON(getVocabularyItemsDueForReview(vocabularyItems, clock))]
  /\ UNCHANGED <<serverVars, srsVars, reqs, flashcards, isLoading, currentCardIndex,
                 isFlipped, reviewComplete, view, mutations, session>>

\* the query receives its data and FlashcardReview renders with it
DeliverDue ==
  /\ dueFetch.phase = "answered"
  /\ Mounted
  /\ dueFetch' = NoFetch
  /\ Commit(FALSE, dueFetch.data, currentCardIndex, isFlipped)
  /\ session' = IF session.started THEN session
                ELSE [session EXCEPT !.started = TRUE,
                        !.start = {CardId(dueFetch.data[i]) : i \in DOMAIN dueFetch.data}]
  /\ UNCHANGED <<serverVars, srsVars, reqs, mutations>>

\* onClick of the card: setIsFlipped(!isFlipped)
Flip ==
  /\ view = "card"
  /\ Commit(isLoading, flashcards, currentCardIndex, ~isFlipped)
  /\ UNCHANGED <<serverVars, srsVars, reqs, dueFetch, mutations, session>>

\* handleReviewScore(score), from a rating button of the revealed side:
\* the mutation is fired and moveToNextCard is called without waiting
handleReviewScore(score) ==
  /\ view = "card"
  /\ isFlipped
  /\ Len(mutations) < MaxPending
  /\ currentCardIndex < Len(flashcards)
  /\ LET currentCard == flashcards[currentCardIndex + 1]
     IN /\ mutations' = Append(mutations,
             apiRequest("PUT", <<"/api/review", CardId(currentCard)>>,
                        [familiarityScore |-> Num(score)]))
        /\ session' = [session EXCEPT !.rated = @ \cup {CardId(currentCard)}]
  /\ Commit(isLoading, flashcards, currentCardIndex + 1, FALSE)
  /\ UNCHANGED <<serverVars, srsVars, reqs, dueFetch>>

\* moveToNextCard, from the Skip button, disabled on the last card
moveToNextCard ==
  /\ view = "card"
  /\ currentCardIndex # Len(flashcards) - 1
  /\ Commit(isLoading, flashcards, currentCardIndex + 1, FALSE)
  /\ session' = [session EXCEPT !.moved = TRUE]
  /\ UNCHANGED <<serverVars, srsVars, reqs, dueFetch, mutations>>

\* moveBackCard, from the Back button, disabled on the first card
moveBackCard ==
  /\ view = "card"
  /\ currentCardIndex # 0
  /\ IF currentCardIndex > 0
     THEN Commit(isLoading, flashcards, currentCardIndex - 1, FALSE)
     ELSE UNCHANGED <<flashcards, isLoading, currentCardIndex, isFlipped,
                      reviewComplete, view>>
  /\ session' = [session EXCEPT !.moved = TRUE]
  /\ UNCHANGED <<serverVars, srsVars, reqs, dueFetch, mutations>>

\* app.put('/api/review/:id') answers the i-th mutation under way; the
\* clock may advance between the two new Date() of the storage method
ServeReview(i) ==
  /\ i \in DOMAIN mutations
  /\ mutations[i].phase = "sent"
  /\ LET id == mutations[i].url[2]
         familiarityScore == Field(mutations[i].data, "familiarityScore")
     IN IF ReviewScoreRejected(familiarityScore)
        THEN /\ mutations' = [mutations EXCEPT ![i].phase = "answered", ![i].status = 400]
             /\ UNCHANGED <<vocabularyItems, clock>>
        ELSE \E now2 \in {t \in {clock, clock + 1} : t <= MaxClock} :
               LET r == updateVocabularyItemReviewStatus(vocabularyItems, id,
                          familiarityScore, clock, now2)
               IN /\ vocabularyItems' = r.map
                  /\ clock' = now2
                  /\ mutations' = [mutations EXCEPT ![i].phase = "answered",
                                     ![i].status = IF r.result = Undefined THEN 404 ELSE 200]
  /\ UNCHANGED <<vocabularyId, res, requests, srsVars, reqs, flashcards, isLoading,
                 currentCardIndex, isFlipped, reviewComplete, view, dueFetch, session>>

\* the response of the i-th mutation arrives.  onSuccess invalidates the
\* due query, which is fetched again, in place of a fetch under way, when
\* the component is on the page; onError shows a toast
SettleReview(i) ==
  /\ i \in DOMAIN mutations
  /\ mutations[i].phase = "answered"
  /\ mutations' = SubSeq(mutations, 1, i - 1) \o SubSeq(mutations, i + 1, Len(mutations))
  /\ dueFetch' = IF mutations[i].status = 200 /\ Mounted
                 THEN [phase |-> "sent", status |-> 0, data |-> <<>>]
                 ELSE dueFetch
  /\ UNCHANGED <<serverVars, srsVars, reqs, flashcards, isLoading, currentCardIndex,
                 isFlipped, reviewComplete, view, session>>

\* the Vocabulary page of another tab deletes an entry
DeleteElsewhere(id) ==
  /\ MapHas(vocabularyItems, id)
  /\ vocabularyItems' = deleteVocabularyItem(vocabularyItems, id).map
  /\ UNCHANGED <<vocabularyId, clock, res, requests, srsVars, reqs, clientVars>>

NextSession ==
  \/ TickSession
  \/ ServeDue
  \/ DeliverDue
  \/ Flip
  \/ \E score \in SessionScores : handleReviewScore(score)
  \/ moveToNextCard
  \/ moveBackCard
  \/ \E i \in 1..MaxPending : ServeReview(i)
  \/ \E i \in 1..MaxPending : SettleReview(i)
  \/ \E id \in Ids : DeleteElsewhere(id)

SpecSession == InitSession /\ [][NextSession]_vars

\* C25: whenever FlashcardReview is past its three early returns, that is
\* not loading, with a list that is not empty and reviewComplete false,
\* currentCardIndex is an index of flashcards
C25_IndexInRange ==
  (view # "unmounted" /\ ~isLoading /\ Len(flashcards) > 0 /\ ~reviewComplete) =>
    (0 <= currentCardIndex /\ currentCardIndex < Len(flashcards))

\* the entry is still stored and is in the storage due list of this instant
StillDue(id) == MapHas(vocabularyItems, id) /\ IsDueServer(MapGet(vocabularyItems, id), clock)

\* the positions of flashcards the learner who only rates has yet to see
Ahead == {k \in DOMAIN flashcards : k > currentCardIndex}

\* C24: in a session in which the learner has only rated the cards shown,
\* an entry of the due list of the session's start that was not rated and
\* is still due is yet to be shown: the session has not ended and the entry
\* is at or after the card shown
C24_NoDueCardSkipped ==
  (session.started /\ ~session.moved) =>
    \A id \in session.start \ session.rated :
      StillDue(id) =>
        /\ view \in {"loading", "card"}
        /\ \E k \in Ahead : CardId(flashcards[k]) = id

\* C21: when no stored entry is due the due query is answered 200 with an
\* empty list, and whenever FlashcardReview is on the page with a due list
\* that has loaded and is empty it shows 'No Flashcards Due'
C21_EmptyDueListShown ==
  [][/\ (dueFetch.phase = "sent" /\ dueFetch'.phase = "answered"
          /\ \A id \in Ids : ~StillDue(id))
         => (dueFetch'.status = 200 /\ dueFetch'.data = <<>>)
     /\ (view' # "unmounted" /\ ~isLoading' /\ Len(flashcards') = 0)
         => view' = "empty"]_vars

\* C21 happens: in the middle of a session that started with cards, after a
\* card was rated, the due list came back empty and 'No Flashcards Due' is
\* shown
C21_Witness ==
  /\ session.start # {}
  /\ session.rated # {}
  /\ currentCardIndex > 0
  /\ flashcards = <<>>
  /\ view = "empty"

====
